---- MODULE Spec2Model ----
(***************************************************************************)
(* A model of netdata-forwarder.py: the normalisation of one Netdata       *)
(* /api/v1/data response into metric records (parse_chart_response), the   *)
(* collection loop over mirrored hosts, charts and aggregation types, the  *)
(* routing of the collected records to the two proxies (run_once with      *)
(* send_to_proxy and send_to_graphql_proxy), and the drivers main and      *)
(* run_continuous.                                                         *)
(*                                                                         *)
(* JSON values are records [t, n]: t is the JSON/Python kind and n the     *)
(* number carried (in tenths, so 425 stands for 42.5); n is 0 for kinds    *)
(* that carry no number.                                                   *)
(***************************************************************************)
EXTENDS Integers, Sequences, FiniteSets, TLC

VARIABLES
    parse_call,   \* a direct call of parse_chart_response: arguments and result
    send_call,    \* a direct call of a send operation: arguments and result
    mode,         \* "once" (argv[1] = --once) or "continuous"
    pc,           \* where the process is
    unanswered,   \* the aggregation types the source answers no data request for
    info_resp,    \* the response to this cycle's info request
    mirrored_hosts, \* info['mirrored_hosts'] of this cycle
    hi, ci, ai,   \* the collection loops: host, chart and aggregation index
    all_metrics,  \* the records collected so far in this cycle
    si,           \* the send loop: index into AGGREGATION_TYPES
    total_sent_clickhouse,
    total_sent_graphql,
    failed_sends,
    success,      \* what run_once returned: "none", "True", "False", "raised"
    exit_code,    \* the process exit status, -1 while it runs
    requests,     \* the data requests issued in this cycle, in order
    last_status,  \* the HTTP status of the last data request (0: no response)
    posted,       \* the POST requests issued in this cycle, in order
    odd,          \* how many data responses of this cycle were not the usual one
    overran,      \* whether the cycle that just ended took longer than the interval
                  \* (kept until the next cycle's first request)
    signalled     \* whether the stop signal (KeyboardInterrupt) was delivered

vars == <<parse_call, send_call, mode, pc, unanswered, info_resp, mirrored_hosts, hi, ci, ai,
          all_metrics, si, total_sent_clickhouse, total_sent_graphql,
          failed_sends, success, exit_code, requests, last_status, posted, odd,
          overran, signalled>>

mainVars == <<mode, pc, unanswered, info_resp, mirrored_hosts, hi, ci, ai,
              all_metrics, si, total_sent_clickhouse, total_sent_graphql,
              failed_sends, success, exit_code, requests, last_status, posted,
              odd, overran, signalled>>

-----------------------------------------------------------------------------
(* Bounds of the model. *)

MaxDims == 2
MaxValues == 2
MaxOdd == 1

-----------------------------------------------------------------------------
(* Program constants. *)

CHARTS_TO_COLLECT == <<"system.cpu", "disk_space./">>

AGGREGATION_TYPES == <<"max", "average", "median">>

AGG_KEY == "_aggregation_type"

NETDATA_URL == "http://localhost:19999"

PROXY_URL == "http://localhost:8080"

GRAPHQL_PROXY_URL == "http://localhost:8090"

TIME_WINDOW == -60

-----------------------------------------------------------------------------
(* JSON values and Python's float(). *)

JNull == [t |-> "null", n |-> 0]
JNum(k) == [t |-> "num", n |-> k]
JNumStr(k) == [t |-> "numstr", n |-> k]
JStr == [t |-> "str", n |-> 0]
JTrue == [t |-> "bool", n |-> 1]
JList == [t |-> "list", n |-> 0]
JInf == [t |-> "inf", n |-> 0]

\* float(x): a number converts to itself, a numeric string to the number it
\* spells, a bool to 0.0 or 1.0, the literal Infinity (or the string "inf")
\* to a non-finite float; any other string raises ValueError, a list or
\* None raises TypeError.
Float(v) ==
    CASE v.t \in {"num", "numstr", "bool"} ->
            [ok |-> TRUE, val |-> [fin |-> TRUE, n |-> v.n]]
      [] v.t = "inf" -> [ok |-> TRUE, val |-> [fin |-> FALSE, n |-> 0]]
      [] OTHER -> [ok |-> FALSE, val |-> [fin |-> TRUE, n |-> 0]]

-----------------------------------------------------------------------------
(* The chart payload: a JSON document. t = "dict" is an object whose keys  *)
(* are `keys`; labels and data hold the values of those two keys (<<>>     *)
(* when the key is absent). A data entry is [t, cells]: t = "list" is a    *)
(* row, any other t a scalar where a row was expected.                     *)

Get(chart_data, key, default) ==
    IF key \in chart_data.keys
    THEN (IF key = "labels" THEN chart_data.labels ELSE chart_data.data)
    ELSE default

\* `not x` for a JSON document: None, {} and [] are falsy.
Falsy(chart_data) ==
    \/ chart_data.t = "null"
    \/ chart_data.t = "dict" /\ chart_data.keys = {}
    \/ chart_data.t = "list" /\ chart_data.data = <<>>

Range(s) == {s[i] : i \in DOMAIN s}

Tail1(s) == IF Len(s) > 1 THEN SubSeq(s, 2, Len(s)) ELSE <<>>

\* chart_id.replace('_', ' ').title()
ChartName(chart_id) ==
    CASE chart_id = "system.cpu" -> "System.Cpu"
      [] chart_id = "disk_space./" -> "Disk Space./"
      [] OTHER -> chart_id

\* NetdataForwarder._get_chart_units
_get_chart_units(chart_id) ==
    CASE chart_id = "system.cpu" -> "percentage"
      [] chart_id = "disk_space./" -> "GB"
      [] OTHER -> ""

\* chart_id.split('.')[0] if '.' in chart_id else ''
Family(chart_id) ==
    CASE chart_id = "system.cpu" -> "system"
      [] chart_id = "disk_space./" -> "disk_space"
      [] OTHER -> ""

MetricKeys ==
    {"timestamp", "hostname", "chart_id", "chart_name", "id", "value", "units",
     "family", "context", "chart_type", AGG_KEY}

Metric(timestamp, hostname, chart_id, dimension, value, aggregation_type) ==
    [k \in MetricKeys |->
        CASE k = "timestamp" -> timestamp
          [] k = "hostname" -> hostname
          [] k = "chart_id" -> chart_id
          [] k = "chart_name" -> ChartName(chart_id)
          [] k = "id" -> dimension
          [] k = "value" -> value
          [] k = "units" -> _get_chart_units(chart_id)
          [] k = "family" -> Family(chart_id)
          [] k = "context" -> chart_id
          [] k = "chart_type" -> "line"
          [] OTHER -> aggregation_type]

Indices(n) == [i \in 1..n |-> i]

\* The loop body's test: the value is there and is not None, and float()
\* accepts it (ValueError and TypeError are caught and the value skipped).
KeepsValueNullAsZero(values, i) ==
    \/ i > Len(values)
    \/ values[i].t = "null"
    \/ Float(values[i]).ok

KeepsValue(values, i) ==
    /\ i <= Len(values)
    /\ values[i].t # "null"
    /\ Float(values[i]).ok

ValueAt(values, i) ==
    IF i <= Len(values) /\ values[i].t # "null"
    THEN Float(values[i]).val
    ELSE [fin |-> TRUE, n |-> 0]

\* The records of one row: one per kept dimension, in dimension order.
RowMetrics(dimensions, row, hostname, chart_id, aggregation_type) ==
    LET timestamp == row[1]
        values == Tail1(row)
        kept == SelectSeq(Indices(Len(dimensions)),
                          LAMBDA i : KeepsValue(values, i))
    IN  [k \in 1..Len(kept) |->
            Metric(timestamp, hostname, chart_id, dimensions[kept[k]],
                   ValueAt(values, kept[k]), aggregation_type)]

\* NetdataForwarder.parse_chart_response. The result is [raised, metrics]:
\* len() of a data entry that is no list raises TypeError, which the
\* function does not catch.
ParseCountsTimeLabel(chart_data, hostname, chart_id, aggregation_type) ==
    LET labels == Get(chart_data, "labels", <<>>)
        data_points == Get(chart_data, "data", <<>>)
        none == [raised |-> FALSE, metrics |-> <<>>]
    IN  IF Falsy(chart_data) \/ chart_data.t # "dict" THEN none
        ELSE IF labels = <<>> \/ data_points = <<>> THEN none
        ELSE IF data_points[1].t # "list"
             THEN [raised |-> TRUE, metrics |-> <<>>]
        ELSE IF Len(data_points[1].cells) > 1
             THEN [raised |-> FALSE,
                   metrics |-> RowMetrics(labels, <<JNull>> \o data_points[1].cells,
                                          hostname, chart_id, aggregation_type)]
        ELSE none

parse_chart_response(chart_data, hostname, chart_id, aggregation_type) ==
    LET labels == Get(chart_data, "labels", <<>>)
        data_points == Get(chart_data, "data", <<>>)
        none == [raised |-> FALSE, metrics |-> <<>>]
    IN  IF Falsy(chart_data) \/ chart_data.t # "dict" THEN none
        ELSE IF labels = <<>> \/ data_points = <<>> THEN none
        ELSE IF Len(labels) < 2 THEN none
        ELSE IF data_points[1].t # "list"
             THEN [raised |-> TRUE, metrics |-> <<>>]
        ELSE IF Len(data_points[1].cells) > 1
             THEN [raised |-> FALSE,
                   metrics |-> RowMetrics(Tail1(labels), data_points[1].cells,
                                          hostname, chart_id, aggregation_type)]
        ELSE none

-----------------------------------------------------------------------------
(* HTTP responses. A response is [status, body]; status 0 stands for a     *)
(* request that raised requests.exceptions.RequestException (connection    *)
(* refused, timeout) and so has no response.                               *)

\* response.raise_for_status(): HTTPError for a 4xx or 5xx status.
RaisesForStatus(status) == status >= 400 /\ status < 600

NoDocument == [t |-> "null", keys |-> {}, labels |-> <<>>, data |-> <<>>]

\* A body that is no JSON: response.json() raises.
NotJson == [t |-> "notjson", keys |-> {}, labels |-> <<>>, data |-> <<>>]

\* NetdataForwarder.get_chart_data: the URL and parameters of its one GET.
DataRequest(hostname, chart_id, aggregation_type, base_netdata_url) ==
    [base |-> base_netdata_url, scope |-> "host", host |-> hostname,
     host_param |-> "", chart |-> chart_id, group |-> aggregation_type,
     after |-> TIME_WINDOW, points |-> 1]

\* NetdataForwarder.get_chart_data: what it returns for the response of its
\* GET. [raised, data]: data is the decoded body of a 200 and None
\* (NoDocument) for any other status and for a RequestException; a body
\* that is no JSON raises out of response.json() (the requests version
\* decides whether that error is a RequestException, caught here, or a
\* plain ValueError, caught by the caller: the caller skips either way).
get_chart_data(resp) ==
    IF resp.status = 0 THEN [raised |-> FALSE, data |-> NoDocument]
    ELSE IF resp.status = 200
         THEN (IF resp.body.t = "notjson"
               THEN [raised |-> TRUE, data |-> NoDocument]
               ELSE [raised |-> FALSE, data |-> resp.body])
    ELSE [raised |-> FALSE, data |-> NoDocument]

\* The body of the innermost collection loop (lines 157-167): the records
\* one (host, chart, aggregation) adds to all_metrics.
CollectedKeepsFailed(resp, hostname, chart_id, aggregation_type) ==
    LET got == get_chart_data(resp)
        parsed == parse_chart_response(got.data, hostname, chart_id,
                                       aggregation_type)
    IN  IF got.raised \/ Falsy(got.data) \/ parsed.raised
        THEN <<Metric(JNull, hostname, chart_id, "", [fin |-> TRUE, n |-> 0],
                      aggregation_type)>>
        ELSE parsed.metrics

Collected(resp, hostname, chart_id, aggregation_type) ==
    LET got == get_chart_data(resp)
        parsed == parse_chart_response(got.data, hostname, chart_id,
                                       aggregation_type)
    IN  IF got.raised \/ Falsy(got.data) \/ parsed.raised
        THEN <<>>
        ELSE parsed.metrics

\* NetdataForwarder.get_netdata_info: [raised, info, hosts]. info is FALSE
\* when the function returns None or an empty object; a 200 whose body is
\* JSON but no object makes info.get raise AttributeError in the caller.
InfoFallsBackToSelf(resp) ==
    IF resp.status = 0 \/ RaisesForStatus(resp.status) \/ resp.kind \in {"notjson", "empty"}
    THEN [raised |-> FALSE, info |-> TRUE, hosts |-> <<"localhost">>]
    ELSE IF resp.kind = "list"
         THEN [raised |-> TRUE, info |-> TRUE, hosts |-> <<>>]
    ELSE [raised |-> FALSE, info |-> TRUE,
          hosts |-> IF resp.hosts = <<>> THEN <<"localhost">> ELSE resp.hosts]

get_netdata_info(resp) ==
    IF resp.status = 0 \/ RaisesForStatus(resp.status) \/ resp.kind = "notjson"
    THEN [raised |-> FALSE, info |-> FALSE, hosts |-> <<>>]
    ELSE IF resp.kind = "list"
         THEN [raised |-> TRUE, info |-> TRUE, hosts |-> <<>>]
    ELSE IF resp.kind = "empty"
         THEN [raised |-> FALSE, info |-> FALSE, hosts |-> <<>>]
    ELSE [raised |-> FALSE, info |-> TRUE, hosts |-> resp.hosts]

-----------------------------------------------------------------------------
(* Routing and sending. *)

\* Lines 348-355 and 384-391: the endpoint of an aggregation type.
EndpointUnknownRejected(base, aggregation_type) ==
    CASE aggregation_type = "max" -> [base |-> base, path |-> "/max"]
      [] aggregation_type = "average" -> [base |-> base, path |-> "/avg"]
      [] aggregation_type = "median" -> [base |-> base, path |-> "/median"]
      [] OTHER -> [base |-> "", path |-> ""]

Endpoint(base, aggregation_type) ==
    CASE aggregation_type = "max" -> [base |-> base, path |-> "/max"]
      [] aggregation_type = "average" -> [base |-> base, path |-> "/avg"]
      [] aggregation_type = "median" -> [base |-> base, path |-> "/median"]
      [] OTHER -> [base |-> base, path |-> ""]

NoEndpoint == [base |-> "", path |-> ""]

\* What the code after session.post does with the response: "True" when the
\* status passes raise_for_status and the body is a JSON object, "False"
\* when a RequestException is caught, "raise" when the body is JSON but no
\* object (result.get raises AttributeError, which the function lets out)
\* or no JSON at all (see get_chart_data for the two ways that error goes).
SendOutcome(resp) ==
    IF resp.status = 0 \/ RaisesForStatus(resp.status) THEN "False"
    ELSE IF resp.kind = "dict" THEN "True"
    ELSE "raise"

\* send_to_proxy and send_to_graphql_proxy, which differ in the base URL:
\* [posted, endpoint, ret].
SendOp(base, metrics, aggregation_type, resp) ==
    IF metrics = <<>>
    THEN [posted |-> FALSE, endpoint |-> NoEndpoint, ret |-> "False"]
    ELSE [posted |-> TRUE, endpoint |-> Endpoint(base, aggregation_type),
          ret |-> SendOutcome(resp)]

send_to_proxy(metrics, aggregation_type, resp) ==
    SendOp(PROXY_URL, metrics, aggregation_type, resp)

send_to_graphql_proxy(metrics, aggregation_type, resp) ==
    SendOp(GRAPHQL_PROXY_URL, metrics, aggregation_type, resp)

\* Line 469: the records of one aggregation type.
TypeMetricsIgnoresType(metrics, aggregation_type) == metrics

TypeMetrics(metrics, aggregation_type) ==
    SelectSeq(metrics, LAMBDA m : m[AGG_KEY] = aggregation_type)

\* Line 474: a record without the internal aggregation marker.
CleanMetricKeepsMarker(metric) == metric

CleanMetric(metric) == [k \in (DOMAIN metric) \ {AGG_KEY} |-> metric[k]]

\* Lines 472-475.
CleanMetrics(metrics, aggregation_type) ==
    LET type_metrics == TypeMetrics(metrics, aggregation_type)
    IN  [i \in 1..Len(type_metrics) |-> CleanMetric(type_metrics[i])]

-----------------------------------------------------------------------------
(* What the environment may answer. *)

NoInfo == [status |-> 0, kind |-> "none", hosts |-> <<>>]

HostLists == {<<>>, <<"web1">>, <<"web1", "web2">>}

InfoResponses ==
    {[status |-> 0, kind |-> "none", hosts |-> <<>>],
     [status |-> 500, kind |-> "dict", hosts |-> <<>>],
     [status |-> 200, kind |-> "notjson", hosts |-> <<>>],
     [status |-> 200, kind |-> "list", hosts |-> <<>>],
     [status |-> 200, kind |-> "empty", hosts |-> <<>>]}
    \cup {[status |-> 200, kind |-> "dict", hosts |-> h] : h \in HostLists}

Doc(labels, data) ==
    [t |-> "dict", keys |-> {"labels", "data"}, labels |-> labels, data |-> data]

RowOf(cells) == [t |-> "list", cells |-> cells]

\* The usual answer for a chart: one row; the disk chart has a dimension
\* without a value in the window (null) and one whose value is 0.
UsualDocument(chart_id) ==
    IF chart_id = "system.cpu"
    THEN Doc(<<"time", "user", "system">>,
             <<RowOf(<<JNum(1700), JNum(425), JNum(17)>>)>>)
    ELSE Doc(<<"time", "avail", "used", "reserved">>,
             <<RowOf(<<JNum(1700), JNum(0), JNull, JNum(425)>>)>>)

UsualResponse(chart_id) == [status |-> 200, body |-> UsualDocument(chart_id)]

\* The other answers: no response, an error status, a body that is no JSON,
\* null, a payload with the time label only, a payload whose row is a
\* scalar.
OddResponses ==
    {[status |-> 0, body |-> NoDocument],
     [status |-> 404, body |-> NoDocument],
     [status |-> 500, body |-> NoDocument],
     [status |-> 200, body |-> NotJson],
     [status |-> 200, body |-> NoDocument],
     [status |-> 200, body |-> Doc(<<"time">>, <<RowOf(<<JNum(1700), JNum(425)>>)>>)],
     [status |-> 200, body |-> Doc(<<"time", "user">>, <<[t |-> "num", cells |-> <<>>]>>)]}

\* The source may answer no request of one aggregation type, or none at all.
UnansweredSets ==
    {{}, Range(AGGREGATION_TYPES)} \cup {{g} : g \in Range(AGGREGATION_TYPES)}

SendResponses ==
    {[status |-> 0, kind |-> "none"],
     [status |-> 500, kind |-> "dict"],
     [status |-> 404, kind |-> "notjson"],
     [status |-> 200, kind |-> "dict"],
     [status |-> 200, kind |-> "list"],
     [status |-> 200, kind |-> "notjson"]}

-----------------------------------------------------------------------------
(* The process: main, run_once and run_continuous. *)

RunStates == {"info", "fetch", "send_clickhouse", "send_graphql"}

\* The locals of run_once and the per-cycle records, at the start of a cycle.
CycleStart ==
    /\ pc' = "info"
    /\ unanswered' = {}
    /\ info_resp' = NoInfo
    /\ mirrored_hosts' = <<>>
    /\ hi' = 1 /\ ci' = 1 /\ ai' = 1
    /\ all_metrics' = <<>>
    /\ si' = 1
    /\ total_sent_clickhouse' = 0
    /\ total_sent_graphql' = 0
    /\ failed_sends' = 0
    /\ success' = "none"
    /\ requests' = <<>>
    /\ last_status' = 0
    /\ posted' = <<>>
    /\ odd' = 0

InitMain(m) ==
    /\ mode = m
    /\ pc = "info"
    /\ unanswered = {}
    /\ info_resp = NoInfo
    /\ mirrored_hosts = <<>>
    /\ hi = 1 /\ ci = 1 /\ ai = 1
    /\ all_metrics = <<>>
    /\ si = 1
    /\ total_sent_clickhouse = 0
    /\ total_sent_graphql = 0
    /\ failed_sends = 0
    /\ success = "none"
    /\ exit_code = -1
    /\ requests = <<>>
    /\ last_status = 0
    /\ posted = <<>>
    /\ odd = 0
    /\ overran = FALSE
    /\ signalled = FALSE

\* run_once returns (or raises): control is back in main or run_continuous.
Returns(result) ==
    /\ pc' = "returned"
    /\ success' = result

\* Lines 134-150 with 442-446: the info call decides the hosts of the cycle.
\* No info, or no mirrored hosts, makes get_mirrored_host_metrics return []
\* and run_once return False.
GetInfo ==
    /\ pc = "info"
    /\ \E resp \in InfoResponses, groups \in UnansweredSets :
        LET got == get_netdata_info(resp)
        IN  /\ unanswered' = groups
            /\ info_resp' = resp
            /\ overran' = FALSE
            /\ IF got.raised THEN Returns("raised") /\ mirrored_hosts' = <<>>
               ELSE IF ~got.info \/ got.hosts = <<>>
                    THEN Returns("False") /\ mirrored_hosts' = <<>>
               ELSE /\ pc' = "fetch"
                    /\ mirrored_hosts' = got.hosts
                    /\ success' = success
    /\ UNCHANGED <<parse_call, send_call, mode, signalled, hi, ci, ai, all_metrics, si,
                   total_sent_clickhouse, total_sent_graphql, failed_sends,
                   exit_code, requests, last_status, posted, odd>>

\* Whether (hi, ci, ai) is the last combination of the three nested loops.
LastCombination ==
    /\ hi = Len(mirrored_hosts)
    /\ ci = Len(CHARTS_TO_COLLECT)
    /\ ai = Len(AGGREGATION_TYPES)

\* The loops stay on the combination just fetched and fetch it again.
NextCombinationRetries == hi' = hi /\ ci' = ci /\ ai' = ai

\* The next combination of the three nested loops (lines 153-156).
NextCombination ==
    IF ai < Len(AGGREGATION_TYPES)
    THEN hi' = hi /\ ci' = ci /\ ai' = ai + 1
    ELSE IF ci < Len(CHARTS_TO_COLLECT)
         THEN hi' = hi /\ ci' = ci + 1 /\ ai' = 1
    ELSE hi' = hi + 1 /\ ci' = 1 /\ ai' = 1

\* Lines 153-167, one turn of the innermost loop: one GET, its response
\* parsed and the records appended. After the last combination run_once
\* goes on (lines 442-465): no record at all makes it return False.
Fetch ==
    /\ pc = "fetch"
    /\ \E resp \in {UsualResponse(CHARTS_TO_COLLECT[ci])} \cup OddResponses :
        /\ IF AGGREGATION_TYPES[ai] \in unanswered
           THEN resp.status = 0
           ELSE resp \notin OddResponses \/ odd < MaxOdd
        /\ odd' = IF AGGREGATION_TYPES[ai] \notin unanswered /\ resp \in OddResponses
                  THEN odd + 1 ELSE odd
        /\ LET hostname == mirrored_hosts[hi]
               chart_id == CHARTS_TO_COLLECT[ci]
               aggregation_type == AGGREGATION_TYPES[ai]
               metrics == all_metrics \o
                          Collected(resp, hostname, chart_id, aggregation_type)
           IN  /\ requests' = Append(requests,
                                     DataRequest(hostname, chart_id,
                                                 aggregation_type, NETDATA_URL))
               /\ last_status' = resp.status
               /\ all_metrics' = metrics
               /\ IF ~LastCombination
                  THEN NextCombination /\ pc' = "fetch" /\ success' = success
                  ELSE /\ UNCHANGED <<hi, ci, ai>>
                       /\ IF metrics = <<>>
                          THEN Returns("False")
                          ELSE pc' = "send_clickhouse" /\ success' = success
    /\ UNCHANGED <<parse_call, send_call, mode, signalled, unanswered, info_resp, mirrored_hosts, si,
                   total_sent_clickhouse, total_sent_graphql, failed_sends,
                   exit_code, posted, overran>>

\* Lines 505-513: the result of run_once after the send loop.
OverallClickhouseOnly(ch, gql) == IF ch > 0 THEN "True" ELSE "False"

Overall(ch, gql) == IF ch + gql > 0 THEN "True" ELSE "False"

\* The end of one turn of the send loop (line 467): the next aggregation
\* type, or the end of run_once.
AfterTypeStopsOnFailure(ch, gql, failed) ==
    IF si < Len(AGGREGATION_TYPES) /\ failed = 0
    THEN si' = si + 1 /\ pc' = "send_clickhouse" /\ success' = success
    ELSE si' = si /\ Returns(Overall(ch, gql))

AfterType(ch, gql, failed) ==
    IF si < Len(AGGREGATION_TYPES)
    THEN si' = si + 1 /\ pc' = "send_clickhouse" /\ success' = success
    ELSE si' = si /\ Returns(Overall(ch, gql))

Posted(dest, aggregation_type, sent) ==
    [dest |-> dest, aggregation_type |-> aggregation_type,
     endpoint |-> sent.endpoint, metrics |-> CleanMetrics(all_metrics, aggregation_type),
     ok |-> (sent.ret = "True")]

\* Lines 469-470 and 502-503: no record of this aggregation type, nothing is
\* sent for it.
SkipType ==
    /\ pc = "send_clickhouse"
    /\ TypeMetrics(all_metrics, AGGREGATION_TYPES[si]) = <<>>
    /\ AfterType(total_sent_clickhouse, total_sent_graphql, failed_sends)
    /\ UNCHANGED <<parse_call, send_call, mode, signalled, unanswered, info_resp, mirrored_hosts, hi, ci,
                   ai, all_metrics, total_sent_clickhouse, total_sent_graphql,
                   failed_sends, exit_code, requests, last_status, posted, odd,
                   overran>>

\* Lines 471-488: the batch of this aggregation type goes to the ClickHouse
\* proxy; a False and an exception both count one failed send.
SendClickhouse ==
    /\ pc = "send_clickhouse"
    /\ TypeMetrics(all_metrics, AGGREGATION_TYPES[si]) # <<>>
    /\ \E resp \in SendResponses :
        LET aggregation_type == AGGREGATION_TYPES[si]
            clean_metrics == CleanMetrics(all_metrics, aggregation_type)
            sent == send_to_proxy(clean_metrics, aggregation_type, resp)
        IN  /\ posted' = IF sent.posted
                         THEN Append(posted, Posted("clickhouse", aggregation_type, sent))
                         ELSE posted
            /\ IF sent.ret = "True"
               THEN /\ total_sent_clickhouse' =
                          total_sent_clickhouse + Len(clean_metrics)
                    /\ failed_sends' = failed_sends
               ELSE /\ total_sent_clickhouse' = total_sent_clickhouse
                    /\ failed_sends' = failed_sends + 1
    /\ pc' = "send_graphql"
    /\ UNCHANGED <<parse_call, send_call, mode, signalled, unanswered, info_resp, mirrored_hosts, hi, ci,
                   ai, all_metrics, si, total_sent_graphql, success, exit_code,
                   requests, last_status, odd, overran>>

\* Lines 490-501: the same batch goes to the GraphQL proxy, whatever the
\* ClickHouse send did.
SendGraphql ==
    /\ pc = "send_graphql"
    /\ \E resp \in SendResponses :
        LET aggregation_type == AGGREGATION_TYPES[si]
            clean_metrics == CleanMetrics(all_metrics, aggregation_type)
            sent == send_to_graphql_proxy(clean_metrics, aggregation_type, resp)
            ok == sent.ret = "True"
            gql == IF ok THEN total_sent_graphql + Len(clean_metrics)
                   ELSE total_sent_graphql
            failed == IF ok THEN failed_sends ELSE failed_sends + 1
        IN  /\ posted' = IF sent.posted
                         THEN Append(posted, Posted("graphql", aggregation_type, sent))
                         ELSE posted
            /\ total_sent_graphql' = gql
            /\ failed_sends' = failed
            /\ AfterType(total_sent_clickhouse, gql, failed)
    /\ UNCHANGED <<parse_call, send_call, mode, signalled, unanswered, info_resp, mirrored_hosts, hi, ci,
                   ai, all_metrics, total_sent_clickhouse, exit_code, requests,
                   last_status, odd, overran>>

\* main, lines 536-539: sys.exit(0 if success else 1). An exception out of
\* run_once is not caught in this mode: the interpreter ends with status 1.
ExitCode(result) == IF result = "True" THEN 0 ELSE 1

Exit ==
    /\ mode = "once"
    /\ pc = "returned"
    /\ exit_code' = ExitCode(success)
    /\ pc' = "exited"
    /\ UNCHANGED <<parse_call, send_call, mode, signalled, unanswered, info_resp, mirrored_hosts, hi, ci,
                   ai, all_metrics, si, total_sent_clickhouse, total_sent_graphql,
                   failed_sends, success, requests, last_status, posted, odd,
                   overran>>

\* An exception that leaves run_once ends the process instead of being logged.
EndCycleDiesOnError ==
    /\ mode = "continuous"
    /\ pc = "returned"
    /\ IF success = "raised"
       THEN pc' = "killed" /\ exit_code' = 1 /\ overran' = overran
       ELSE pc' = "sleep" /\ exit_code' = exit_code /\ overran' \in BOOLEAN
    /\ UNCHANGED <<parse_call, send_call, mode, signalled, unanswered, info_resp, mirrored_hosts, hi, ci,
                   ai, all_metrics, si, total_sent_clickhouse, total_sent_graphql,
                   failed_sends, success, requests, last_status,
                   posted, odd>>

\* run_continuous, lines 521-531: run_once is over (a False is logged, an
\* Exception is caught and logged) and time.sleep(INTERVAL_SECONDS) begins.
\* The cycle may have taken longer than the interval or not; the code does
\* not look at the clock.
EndCycle ==
    /\ mode = "continuous"
    /\ pc = "returned"
    /\ pc' = "sleep"
    /\ overran' \in BOOLEAN
    /\ UNCHANGED <<parse_call, send_call, mode, signalled, unanswered, info_resp, mirrored_hosts, hi, ci,
                   ai, all_metrics, si, total_sent_clickhouse, total_sent_graphql,
                   failed_sends, success, exit_code, requests, last_status,
                   posted, odd>>

\* When the loop of run_continuous calls run_once again: when the sleep of
\* line 531 is over.
MayBeginCycleOnTimer == pc \in {"sleep", "send_clickhouse", "send_graphql"}

MayBeginCycle == pc = "sleep"

\* Line 531 and back to line 521: the sleep is over and the next cycle
\* begins.
Sleep ==
    /\ mode = "continuous"
    /\ MayBeginCycle
    /\ CycleStart
    /\ UNCHANGED <<parse_call, send_call, mode, signalled, exit_code, overran>>

\* The signal is caught and the loop goes on to its sleep.
InterruptIsSwallowed ==
    /\ mode = "continuous"
    /\ pc \in RunStates \cup {"returned", "sleep"}
    /\ signalled' = TRUE
    /\ pc' = "sleep"
    /\ UNCHANGED <<parse_call, send_call, mode, unanswered, info_resp, mirrored_hosts, hi, ci,
                   ai, all_metrics, si, total_sent_clickhouse, total_sent_graphql,
                   failed_sends, success, exit_code, requests, last_status, posted, odd,
                   overran>>

\* Lines 520-527: KeyboardInterrupt inside the try block (run_once, and the
\* test of its result) is caught, the loop is left and the process ends
\* normally. Inside the handler of another exception and during the sleep of
\* line 531 nothing catches it and the interpreter ends the process (the
\* shell reports status 130).
Interrupt ==
    /\ mode = "continuous"
    /\ pc \in RunStates \cup {"returned", "sleep"}
    /\ signalled' = TRUE
    /\ IF pc \in RunStates \/ (pc = "returned" /\ success # "raised")
       THEN pc' = "stopped" /\ exit_code' = 0
       ELSE pc' = "killed" /\ exit_code' = 130
    /\ UNCHANGED <<parse_call, send_call, mode, unanswered, info_resp, mirrored_hosts, hi, ci,
                   ai, all_metrics, si, total_sent_clickhouse, total_sent_graphql,
                   failed_sends, success, requests, last_status, posted, odd,
                   overran>>

-----------------------------------------------------------------------------
(* The inputs parse_chart_response is applied to. *)

DimNames == <<"user", "system", "nice", "idle", "iowait">>

Hosts == {"web1", "web2"}

Timestamp == JNum(1700)

CellValues == {JNull, JNum(0), JNum(425), JNumStr(17), JStr, JTrue, JList, JInf}

SeqsUpTo(S, n) == UNION {[1..k -> S] : k \in 0..n}

LabelLists == {[i \in 1..k |-> IF i = 1 THEN "time" ELSE DimNames[i - 1]] :
                   k \in 0..(MaxDims + 1)}

Rows == {<<>>} \cup {<<ts>> \o vs : ts \in {Timestamp, JNull},
                                     vs \in SeqsUpTo(CellValues, MaxValues)}

OtherRow == [t |-> "list", cells |-> <<JNum(1), JNum(9), JNum(9), JNum(9)>>]

DataLists ==
    {<<>>, <<[t |-> "num", cells |-> <<>>]>>}
    \cup {<<[t |-> "list", cells |-> r]>> : r \in Rows}
    \cup {<<[t |-> "list", cells |-> r], OtherRow>> : r \in Rows}

Documents ==
    {[t |-> "dict", keys |-> {"labels", "data"}, labels |-> l, data |-> d] :
        l \in LabelLists, d \in DataLists}
    \cup {[t |-> "dict", keys |-> {"labels"}, labels |-> l, data |-> <<>>] :
        l \in LabelLists}
    \cup {[t |-> "dict", keys |-> {"data"}, labels |-> <<>>, data |-> d] :
        d \in {<<>>, <<OtherRow>>}}
    \cup {[t |-> "dict", keys |-> {}, labels |-> <<>>, data |-> <<>>],
          [t |-> "null", keys |-> {}, labels |-> <<>>, data |-> <<>>],
          [t |-> "list", keys |-> {}, labels |-> <<>>, data |-> <<OtherRow>>]}

NoParse ==
    [called |-> FALSE, chart_data |-> NoDocument, hostname |-> "", chart_id |-> "",
     aggregation_type |-> "", raised |-> FALSE, metrics |-> <<>>]

NoSend ==
    [called |-> FALSE, dest |-> "", aggregation_type |-> "", metrics |-> <<>>,
     resp |-> [status |-> 0, kind |-> "none"], posted |-> FALSE,
     endpoint |-> NoEndpoint, ret |-> "none"]

\* The arguments of the call are drawn here; Parse applies the function.
InitParse ==
    /\ \E chart_data \in Documents, hostname \in Hosts,
          chart_id \in Range(CHARTS_TO_COLLECT),
          aggregation_type \in Range(AGGREGATION_TYPES) :
            parse_call = [called |-> FALSE, chart_data |-> chart_data,
                          hostname |-> hostname, chart_id |-> chart_id,
                          aggregation_type |-> aggregation_type,
                          raised |-> FALSE, metrics |-> <<>>]
    /\ send_call = NoSend
    /\ InitMain("none")

\* One call of parse_chart_response.
Parse ==
    /\ ~parse_call.called
    /\ parse_call.chart_id # ""
    /\ LET r == parse_chart_response(parse_call.chart_data, parse_call.hostname,
                                     parse_call.chart_id,
                                     parse_call.aggregation_type)
       IN  parse_call' = [parse_call EXCEPT !.called = TRUE,
                                            !.raised = r.raised,
                                            !.metrics = r.metrics]
    /\ UNCHANGED send_call
    /\ UNCHANGED mainVars

NextParse == Parse

-----------------------------------------------------------------------------
(* The send operations called directly, with any aggregation type. *)

SendKinds == Range(AGGREGATION_TYPES) \cup {"sum", "min"}

SampleMetrics ==
    RowMetrics(<<"user", "system">>, <<JNum(1700), JNum(425), JNum(17)>>,
               "web1", "system.cpu", "average")

Batches ==
    {<<>>,
     <<CleanMetric(SampleMetrics[1])>>,
     <<CleanMetric(SampleMetrics[1]), CleanMetric(SampleMetrics[2])>>}

InitSend ==
    /\ parse_call = NoParse
    /\ \E dest \in {"clickhouse", "graphql"}, kind \in SendKinds, batch \in Batches :
          send_call = [NoSend EXCEPT !.dest = dest, !.aggregation_type = kind,
                                     !.metrics = batch]
    /\ InitMain("none")

CallSend(dest, sent, resp) ==
    /\ ~send_call.called
    /\ send_call.dest = dest
    /\ send_call' = [send_call EXCEPT !.called = TRUE, !.resp = resp,
                                      !.posted = sent.posted,
                                      !.endpoint = sent.endpoint,
                                      !.ret = sent.ret]
    /\ UNCHANGED parse_call
    /\ UNCHANGED mainVars

CallSendToProxy ==
    \E resp \in SendResponses :
        CallSend("clickhouse",
                 send_to_proxy(send_call.metrics, send_call.aggregation_type, resp),
                 resp)

CallSendToGraphqlProxy ==
    \E resp \in SendResponses :
        CallSend("graphql",
                 send_to_graphql_proxy(send_call.metrics,
                                       send_call.aggregation_type, resp),
                 resp)

NextSend == CallSendToProxy \/ CallSendToGraphqlProxy

SpecSend == InitSend /\ [][NextSend]_vars

SpecParse == InitParse /\ [][NextParse]_vars

Init ==
    /\ parse_call = NoParse
    /\ send_call = NoSend
    /\ \E m \in {"once", "continuous"} : InitMain(m)

Next ==
    \/ GetInfo
    \/ Fetch
    \/ SkipType
    \/ SendClickhouse
    \/ SendGraphql
    \/ Exit
    \/ EndCycle
    \/ Sleep
    \/ Interrupt

Spec == Init /\ [][Next]_vars

\* The loop of run_continuous is sequential code: once run_once has returned
\* or raised, lines 522-531 run on to time.sleep, and time.sleep(60) returns
\* after the interval. Nothing is assumed of the requests of a cycle.
SpecLive == Spec /\ WF_vars(EndCycle) /\ WF_vars(Sleep)

-----------------------------------------------------------------------------
(* Properties of parse_chart_response, over the behaviours of SpecParse. *)

CallLabels == Get(parse_call.chart_data, "labels", <<>>)

CallData == Get(parse_call.chart_data, "data", <<>>)

\* The records of the result that carry the dimension at label position j.
RecordsOf(j) ==
    {k \in DOMAIN parse_call.metrics : parse_call.metrics[k]["id"] = CallLabels[j]}

HasRow ==
    /\ parse_call.called
    /\ parse_call.chart_data.t = "dict"
    /\ Len(CallLabels) >= 2
    /\ CallData # <<>>
    /\ CallData[1].t = "list"

\* C1: for a payload with at least two labels and a data row, the result
\* holds exactly one record, carrying the converted value, for each dimension
\* whose value in the first row is present, not null and accepted by float();
\* it holds no record for any other dimension (so a skipped value is never
\* turned into a zero), no record of anything that is not a dimension, and
\* never more records than dimensions.
C1_OneRecordPerNumericValue ==
    HasRow =>
        LET row == CallData[1].cells
            out == parse_call.metrics
        IN  /\ ~parse_call.raised
            /\ \A j \in 2..Len(CallLabels) :
                  IF j <= Len(row) /\ row[j].t # "null" /\ Float(row[j]).ok
                  THEN /\ Cardinality(RecordsOf(j)) = 1
                       /\ \A k \in RecordsOf(j) :
                             out[k]["value"] = Float(row[j]).val
                  ELSE RecordsOf(j) = {}
            /\ \A k \in DOMAIN out :
                  \E j \in 2..Len(CallLabels) : out[k]["id"] = CallLabels[j]
            /\ Len(out) <= Len(CallLabels) - 1

\* A row with a null first value and a zero second value gave one record.
C1_Witness ==
    /\ HasRow
    /\ Len(CallLabels) = 3
    /\ CallData[1].cells = <<Timestamp, JNull, JNum(0)>>
    /\ Len(parse_call.metrics) = 1
    /\ parse_call.metrics[1]["id"] = "system"

\* C2: a payload with fewer than two labels, or with no data row, gives zero
\* records (and raises nothing), whatever the host, chart and aggregation.
C2_NoRecordsWithoutLabelsOrRows ==
    (parse_call.called /\ (Len(CallLabels) < 2 \/ CallData = <<>>)) =>
        (~parse_call.raised /\ parse_call.metrics = <<>>)

\* A single label with a fully numeric row gave nothing.
C2_Witness ==
    /\ parse_call.called
    /\ Len(CallLabels) = 1
    /\ CallData # <<>>
    /\ CallData[1].cells = <<Timestamp, JNum(425), JNum(425)>>
    /\ parse_call.metrics = <<>>

-----------------------------------------------------------------------------
(* Properties of the cycles of run_once, over the behaviours of Spec. *)

Kinds == Range(AGGREGATION_TYPES)

Dests == {"clickhouse", "graphql"}

\* run_once has returned a result in this cycle (the send loop, if it was
\* entered, is over).
CycleOver == success \in {"True", "False"}

\* The positions in all_metrics of the records collected with kind k.
CollectedAs(k) == {i \in DOMAIN all_metrics : all_metrics[i][AGG_KEY] = k}

\* The POSTs of kind k to destination d.
PostsOf(k, d) ==
    {p \in DOMAIN posted : posted[p].aggregation_type = k /\ posted[p].dest = d}

\* C3: every collected record carries the aggregation marker, and no record
\* of any batch that was posted, to either proxy and for any aggregation
\* type, carries it.
C3_NoMarkerInPostedBatches ==
    /\ \A i \in DOMAIN all_metrics : AGG_KEY \in DOMAIN all_metrics[i]
    /\ \A p \in DOMAIN posted :
          \A j \in DOMAIN posted[p].metrics :
              AGG_KEY \notin DOMAIN posted[p].metrics[j]

\* All three batches went to both proxies.
C3_Witness ==
    /\ Len(posted) = 6
    /\ \A k \in Kinds : \A d \in Dests : PostsOf(k, d) # {}
    /\ \A p \in DOMAIN posted : Len(posted[p].metrics) >= 2

PathOfKind(k) ==
    CASE k = "average" -> "/avg" [] k = "max" -> "/max" [] k = "median" -> "/median"

BaseOfDest(d) == IF d = "clickhouse" THEN PROXY_URL ELSE GRAPHQL_PROXY_URL

\* Batch b holds the records collected with kind k, each once, in the order
\* of collection and with every field but the marker unchanged.
IsBatchOfKind(b, k) ==
    /\ Len(b) = Cardinality(CollectedAs(k))
    /\ \A i \in CollectedAs(k) :
          LET j == Cardinality({i2 \in CollectedAs(k) : i2 <= i})
          IN  \A key \in MetricKeys \ {AGG_KEY} :
                 key \in DOMAIN b[j] /\ b[j][key] = all_metrics[i][key]

\* C4: every batch posted for kind k holds exactly the records collected
\* with kind k in this cycle, from all hosts and charts, each once and none
\* of another kind; it goes to the path of k under the proxy's base URL, the
\* three paths being pairwise distinct; every collected record is of one of
\* the three kinds, and once the cycle is over it has been posted in the one
\* batch of its kind to each proxy.
C4_BatchesPartitionByKind ==
    /\ \A p \in DOMAIN posted :
          /\ posted[p].aggregation_type \in Kinds
          /\ IsBatchOfKind(posted[p].metrics, posted[p].aggregation_type)
          /\ posted[p].endpoint =
                [base |-> BaseOfDest(posted[p].dest),
                 path |-> PathOfKind(posted[p].aggregation_type)]
    /\ \A k1, k2 \in Kinds :
          k1 # k2 => Endpoint(PROXY_URL, k1) # Endpoint(PROXY_URL, k2)
    /\ \A i \in DOMAIN all_metrics : all_metrics[i][AGG_KEY] \in Kinds
    /\ CycleOver =>
          \A i \in DOMAIN all_metrics : \A d \in Dests :
              Cardinality(PostsOf(all_metrics[i][AGG_KEY], d)) = 1

\* Two hosts answered, the batches differ in size and all were posted.
C4_Witness ==
    /\ CycleOver
    /\ Len(mirrored_hosts) = 2
    /\ Len(posted) = 6
    /\ Cardinality(CollectedAs("max")) = 8
    /\ Cardinality(CollectedAs("median")) = 6

\* C5: a --once run exits with status 0 when at least one POST of the cycle
\* succeeded and with status 1 otherwise.
C5_ExitCodeIsAnySuccess ==
    (mode = "once" /\ pc = "exited") =>
        exit_code = (IF \E p \in DOMAIN posted : posted[p].ok THEN 0 ELSE 1)

\* The max batch failed at the ClickHouse proxy, the average batch was
\* accepted, and the run exited with 0.
C5_Witness ==
    /\ mode = "once" /\ pc = "exited" /\ exit_code = 0
    /\ \E p \in PostsOf("max", "clickhouse") : ~posted[p].ok
    /\ \E p \in PostsOf("average", "clickhouse") : posted[p].ok

\* C6: whatever the outcome of each POST, once run_once has returned every
\* non-empty batch of every kind has been posted exactly once to each of
\* the two proxies, and the failures counted are exactly the failed POSTs.
C6_EveryBatchAttempted ==
    CycleOver =>
        /\ \A k \in Kinds : \A d \in Dests :
              Cardinality(PostsOf(k, d)) = (IF CollectedAs(k) # {} THEN 1 ELSE 0)
        /\ failed_sends = Cardinality({p \in DOMAIN posted : ~posted[p].ok})

\* The first POST of the cycle failed and the other five were still made.
C6_Witness ==
    /\ CycleOver
    /\ Len(posted) = 6
    /\ ~posted[1].ok
    /\ \A p \in 2..6 : posted[p].ok
    /\ failed_sends = 1

\* C8 as stated: after a 404 on the host-scoped path the fetch goes on with
\* a request on the self-scoped path, so the last request of a finished
\* fetch is never a host-scoped one answered 404.
C8_FallbackAfterNotFound ==
    ~(requests # <<>> /\ last_status = 404
        /\ requests[Len(requests)].scope = "host")

\* The requests made for the combination of request r.
RequestsLike(r) ==
    {q \in DOMAIN requests :
        /\ requests[q].host = r.host
        /\ requests[q].chart = r.chart
        /\ requests[q].group = r.group}

\* C8, amended: a 404 on the host-scoped request ends the fetch of that
\* combination: it was requested once, on the host-scoped path only, and
\* no record of it is collected.
C8_NotFoundIsNoData ==
    (requests # <<>> /\ last_status = 404) =>
        LET r == requests[Len(requests)]
        IN  /\ r.scope = "host" /\ r.host_param = ""
            /\ Cardinality(RequestsLike(r)) = 1
            /\ \A i \in DOMAIN all_metrics :
                  ~(/\ all_metrics[i]["hostname"] = r.host
                    /\ all_metrics[i]["chart_id"] = r.chart
                    /\ all_metrics[i][AGG_KEY] = r.group)

\* A 404 in the middle of a cycle that had collected records before it.
C8_Witness ==
    /\ requests # <<>> /\ last_status = 404
    /\ Len(requests) = 4
    /\ Len(all_metrics) = 6
    /\ pc = "fetch"

\* The hosts the data requests of this cycle went to.
HostsPolled == {requests[q].host : q \in DOMAIN requests}

\* The mirrored hosts the info call reported (none when it failed).
HostsReported ==
    IF info_resp.status = 200 /\ info_resp.kind = "dict"
    THEN Range(info_resp.hosts) ELSE {}

ForwardingOver ==
    \A k \in Kinds : \A d \in Dests : CollectedAs(k) # {} => PostsOf(k, d) # {}

\* C10: in continuous mode a cycle begins only from the sleep that follows
\* a run_once that has returned (or raised) with all its forwarding done,
\* whether or not that cycle took longer than the interval.
C10_CyclesDoNotOverlap ==
    [][(pc' = "info" /\ requests' = <<>> /\ posted' = <<>>
            /\ (pc # "info" \/ requests # <<>> \/ posted # <<>>)) =>
          (pc = "sleep" /\ success # "none" /\ ForwardingOver)]_vars

\* A new cycle has begun after one that took longer than the interval.
C10_Witness ==
    /\ mode = "continuous"
    /\ pc = "info"
    /\ overran

-----------------------------------------------------------------------------
(* Properties of the send operations called directly, over SpecSend. *)

UnknownKindSent ==
    /\ send_call.called
    /\ send_call.metrics # <<>>
    /\ send_call.aggregation_type \notin Kinds

\* C7 as stated: a non-empty batch of an unrecognised kind is not posted
\* and the operation reports failure.
C7_UnknownKindRejected ==
    UnknownKindSent => (~send_call.posted /\ send_call.ret # "True")

\* C7, amended: a non-empty batch of an unrecognised kind is posted to the
\* proxy's base URL, without a path, and the operation returns True exactly
\* when that request is answered with a status below 400 and a JSON object.
C7_UnknownKindGoesToBaseUrl ==
    UnknownKindSent =>
        /\ send_call.posted
        /\ send_call.endpoint = [base |-> BaseOfDest(send_call.dest), path |-> ""]
        /\ (send_call.ret = "True") <=>
              (send_call.resp.status = 200 /\ send_call.resp.kind = "dict")

\* A batch of kind "sum" was posted and accepted.
C7_Witness ==
    /\ UnknownKindSent
    /\ send_call.aggregation_type = "sum"
    /\ Len(send_call.metrics) = 2
    /\ send_call.posted
    /\ send_call.ret = "True"

-----------------------------------------------------------------------------
(* Properties of run_continuous under the stop signal, over Spec. *)

Ended == pc \in {"stopped", "killed"}

\* C11: in continuous mode the delivery of the stop signal, be it while
\* collecting, forwarding, between run_once and the sleep or during the
\* sleep, ends the process at once: the step that delivers it starts no
\* sleep and no cycle, and no step follows it.
C11_NothingStartsAfterSignal ==
    [][/\ signalled' => (pc' \in {"stopped", "killed"} /\ mode = "continuous")
       /\ signalled => (pc' = pc /\ requests' = requests /\ posted' = posted)]_vars

\* The signal came in the middle of forwarding, after three POSTs.
C11_Witness ==
    /\ signalled
    /\ pc = "stopped"
    /\ Len(posted) = 3
    /\ success = "none"

-----------------------------------------------------------------------------
(* Properties of run_continuous after a cycle that failed, over SpecLive. *)

NothingDelivered == \A p \in 1..Len(posted) : ~posted[p].ok

FailedCycle == mode = "continuous" /\ success \in {"False", "raised"}

\* C12: in continuous mode only the stop signal ends the process. A cycle
\* that delivered nothing (no metric collected, every fetch failed, every
\* POST failed) or that raised an exception has the result False or an
\* exception, never True; after it the loop reaches the sleep, and after the
\* sleep a new cycle, unless the stop signal comes first.
C12_FailedCycleIsFollowedByNext ==
    /\ [](mode = "continuous" => pc # "exited" /\ (Ended => signalled))
    /\ [](mode = "continuous" /\ pc = "returned" /\ NothingDelivered
            => success \in {"False", "raised"})
    /\ (FailedCycle /\ pc = "returned") ~> (pc = "sleep" \/ signalled)
    /\ (FailedCycle /\ pc = "sleep") ~> ((pc = "info" /\ success = "none") \/ signalled)

\* Every one of the six POSTs of a cycle failed and the loop is in its sleep.
C12_Witness ==
    /\ FailedCycle
    /\ pc = "sleep"
    /\ Len(posted) = 6
    /\ NothingDelivered
    /\ ~signalled

-----------------------------------------------------------------------------
(* Properties of the collection loop of get_mirrored_host_metrics, over Spec. *)

Combinations ==
    {<<h, c, k>> : h \in Range(mirrored_hosts), c \in Range(CHARTS_TO_COLLECT), k \in Kinds}

\* The requests of the cycle made for host h, chart c and aggregation kind k.
FetchesOf(h, c, k) ==
    {q \in DOMAIN requests :
        /\ requests[q].host = h
        /\ requests[q].chart = c
        /\ requests[q].group = k}

IsPrefix(s, t) == Len(s) <= Len(t) /\ SubSeq(t, 1, Len(s)) = s

\* The three loops have run to their end in this cycle.
CollectionOver ==
    \/ pc \in {"send_clickhouse", "send_graphql"}
    \/ CycleOver /\ mirrored_hosts # <<>>

\* C13: a data fetch that fails in transport, is answered with a status
\* other than 200 or with a payload that cannot be parsed adds no record,
\* leaves the records of earlier combinations as they are and does not end
\* the collection: no combination of (host, chart, kind) is ever requested
\* twice in a cycle, and when the collection is over each one has been
\* requested once.
C13_FailedFetchIsSkipped ==
    /\ [](\A x \in Combinations : Cardinality(FetchesOf(x[1], x[2], x[3])) <= 1)
    /\ [](CollectionOver =>
            \A x \in Combinations : Cardinality(FetchesOf(x[1], x[2], x[3])) = 1)
    /\ [][Len(requests') > Len(requests) =>
            /\ Len(requests') = Len(requests) + 1
            /\ IsPrefix(all_metrics, all_metrics')
            /\ (last_status' # 200 \/ odd' > odd => all_metrics' = all_metrics)
            /\ (Len(requests') < Cardinality(Combinations) => pc' = "fetch")]_vars

\* Two hosts: one of the twelve fetches failed, the other eleven gave their
\* two records each, and the collection went on to its end.
C13_Witness ==
    /\ pc = "send_clickhouse"
    /\ odd = 1
    /\ Len(requests) = 12
    /\ Len(all_metrics) = 22

====
